---------------------------- MODULE Spec2Model ----------------------------
(***************************************************************************)
(* A model of emCircularBuffer: the fixed-capacity FIFO ring of slots of   *)
(* emCircularBuffer.c, its porting layer emCircularPort.h, and the callers *)
(* that drive it (one sequential caller; one producer task concurrent with *)
(* one consumer task).                                                     *)
(*                                                                         *)
(* Pointers are byte offsets from startBuffer; NULL is a value outside the *)
(* storage region.  size_t is an unsigned integer of SIZE_WIDTH bits.      *)
(***************************************************************************)
EXTENDS Integers, Sequences, FiniteSets, TLC

(***************************************************************************)
(* Bounds of the model.                                                    *)
(***************************************************************************)
\* largest maxElems argument tried by emCircularInit
MaxCap == 4
\* largest elemSize argument tried by emCircularInit
MaxElemSize == 2
\* number of slots the producer side may be granted in one behaviour
MaxOps == 6
\* how far racing tasks may drive the count out of 0 .. maxElems before the
\* tasks stop calling
MaxDrift == 2
\* number of slots the producer side may be granted when more than two
\* tasks run
MaxRaceOps == 3

(***************************************************************************)
(* Program constants.                                                      *)
(***************************************************************************)
\* typedef enum { CB_error = -1, CB_true, CB_false } CBStatus_t;
CB_error == -1
CB_true == 0
CB_false == 1
\* the null pointer: no slot (offsets into storage are >= 0)
NULL == -1
\* what emCircularPort_EnterCritical returns: 0 on success, nonzero on failure
SEM_OK == 0
SEM_FAIL == -1
\* width of size_t in bits, and the modulus of its arithmetic
SIZE_WIDTH == 16
SIZE_MOD == 2 ^ SIZE_WIDTH

\* the tasks of the concurrent specifications: the callers of
\* emCircularGetHead and the callers of emCircularGetTail
Producers == {"p1", "p2"}
Consumers == {"c1", "c2"}
\* and the callers of emCircularGetRemainingSpace
Monitors == {"m1"}
Procs == Producers \cup Consumers \cup Monitors

VARIABLES
    CIRCULAR_USE_LOCK_MECHANISM, \* build switch of emCircularPort.h
    created,      \* "none": emCircularInit not called yet, "ok": it returned
                  \* a buffer, "failed": it returned NULL
    initArgs,     \* <<maxElems, elemSize>> passed to emCircularInit
    heap,         \* blocks malloc'ed and not freed
    sem,          \* buffer->sem: "none" (NULL), "free" or "taken"
    tailInd,      \* CBuffer_t.tailInd
    headInd,      \* CBuffer_t.headInd
    elemSize,     \* CBuffer_t.elemSize
    maxElems,     \* CBuffer_t.maxElems
    NbElems,      \* CBuffer_t.NbElems
    storage,      \* the bytes at startBuffer, by offset
    fill,         \* the byte value malloc left in fresh storage
    produced,     \* the pointers emCircularGetHead granted, in order
    consumed,     \* the pointers emCircularGetTail granted, in order
    readLog,      \* the elements the sequential caller read back, in order
    last,         \* the last completed call of the sequential caller
    tasks,        \* the concurrent tasks that run
    pc,           \* concurrent tasks: where each task is in its call
    chk,          \* concurrent tasks: the status its check returned
    rv,           \* concurrent tasks: retval of its call
    raced         \* the sides ("producers", "consumers") that advanced an
                  \* index although the buffer was full, or empty

bufVars == <<tailInd, headInd, elemSize, maxElems, NbElems>>
procVars == <<tasks, pc, chk, rv, raced>>
vars == <<CIRCULAR_USE_LOCK_MECHANISM, created, initArgs, heap, sem, tailInd,
          headInd, elemSize, maxElems, NbElems, storage, fill, produced,
          consumed, readLog, last, tasks, pc, chk, rv, raced>>

(***************************************************************************)
(* The expressions of emCircularBuffer.c.                                  *)
(***************************************************************************)
\* a bug: the buffer taken as empty only when head is behind tail
IsEmptyCond_behind(h, t) == h < t

\* buffer->headInd == buffer->tailInd
IsEmptyCond(h, t) == h = t

\* a bug: the wrap of head + 1 forgotten
IsFullCond_noWrap(h, t, m) == (h + 1) = t

\* a bug: full taken as head having caught up with tail
IsFullCond_caughtUp(h, t, m) == h = t /\ NbElems = m

\* ((buffer->headInd + 1) % buffer->maxElems) == buffer->tailInd
IsFullCond(h, t, m) == ((h + 1) % m) = t

\* a bug: an index advanced without the wrap
NextInd_noWrap(i, m) == i + 1

\* (ind + 1) % buffer->maxElems
NextInd(i, m) == (i + 1) % m

\* a bug: the index not scaled by the element size
SlotPtr_unscaled(i, es) == i % SIZE_MOD

\* (unsigned char *)buffer->startBuffer + (ind * buffer->elemSize)
SlotPtr(i, es) == (i * es) % SIZE_MOD

\* a bug: a grant that is not counted
IncSize_uncounted(n) == n

\* a bug: a decrement that stops at 0 instead of wrapping
DecSize_floor(n) == IF n = 0 THEN 0 ELSE n - 1

\* buffer->NbElems++ and buffer->NbElems-- on a size_t
IncSize(n) == (n + 1) % SIZE_MOD
DecSize(n) == (n - 1) % SIZE_MOD

\* a bug: the occupancy returned instead of what is left
RemainingSpace_used(m, n) == IF m >= n THEN n ELSE 0

\* retval = 0; if (maxElems >= NbElems) retval = maxElems - NbElems;
RemainingSpace(m, n) == IF m >= n THEN m - n ELSE 0

\* a bug: the bounds of the argument checks off by one
ValidArgs_offByOne(m, es) == ~(m < 1) /\ ~(es < 0)

\* the arguments emCircularInit accepts
ValidArgs(m, es) == ~(m < 2) /\ ~(es < 1)

\* a bug: the C truth value of the comparison returned as the status
IsEmptyStatus_cbool(r, h, t) ==
    IF r # SEM_OK THEN CB_error
    ELSE IF IsEmptyCond(h, t) THEN 1 ELSE 0

\* emCircularIsEmpty, given what EnterCritical returned
IsEmptyStatus(r, h, t) ==
    IF r # SEM_OK THEN CB_error
    ELSE IF IsEmptyCond(h, t) THEN CB_true ELSE CB_false

\* a bug: sem_retval not looked at
IsFullStatus_unchecked(r, h, t, m) ==
    IF IsFullCond(h, t, m) THEN CB_true ELSE CB_false

\* emCircularIsFull, given what EnterCritical returned
IsFullStatus(r, h, t, m) ==
    IF r # SEM_OK THEN CB_error
    ELSE IF IsFullCond(h, t, m) THEN CB_true ELSE CB_false

\* a bug: the guard of emCircularGetHead written with >=
HeadRetval_atCapacity(p, n, m) == IF n >= m THEN NULL ELSE p

\* retval of emCircularGetHead after the increment of NbElems to n
HeadRetval(p, n, m) == IF n > m THEN NULL ELSE p

\* a bug: the guard of emCircularGetTail on a signed count
TailRetval_signed(p, n) == IF n >= SIZE_MOD \div 2 THEN NULL ELSE p

\* retval of emCircularGetTail after the decrement of NbElems to n:
\* the guard is NbElems < 0 on an unsigned value
TailRetval(p, n) == IF n < 0 THEN NULL ELSE p

\* what emCircularPort_EnterCritical can return
AcquireResults == IF CIRCULAR_USE_LOCK_MECHANISM THEN {SEM_OK, SEM_FAIL}
                  ELSE {SEM_OK}

(***************************************************************************)
(* The caller's use of a slot: an element is an unsigned integer of        *)
(* elemSize bytes, stored least significant byte first.                    *)
(***************************************************************************)
\* the K-th element the producer writes
Payload(k) == (10 * k) % (256 ^ elemSize)

\* byte i of element v
ByteOf(v, i) == (v \div (256 ^ i)) % 256

\* storage after writing element v to the es bytes at p
WriteElem(st, p, es, v) ==
    [a \in DOMAIN st |->
        IF a >= p /\ a < p + es THEN ByteOf(v, a - p) ELSE st[a]]

RECURSIVE ReadElem(_, _, _)
\* the element in the es bytes at p
ReadElem(st, p, es) ==
    IF es = 0 THEN 0
    ELSE st[p] + 256 * ReadElem(st, p + 1, es - 1)

\* the record of a completed call: the operation, what it returned, which of
\* its lock acquisitions failed (0: none, 1: the check's, 2: the advance's),
\* and head, tail and count when it was called
Call(op, ret, lf) ==
    [op |-> op, ret |-> ret, lockFail |-> lf,
     head |-> headInd, tail |-> tailInd, count |-> NbElems]

(***************************************************************************)
(* Initial state: no buffer yet.                                           *)
(***************************************************************************)
InitCommon ==
    /\ created = "none"
    /\ initArgs = <<0, 0>>
    /\ heap = {}
    /\ sem = "none"
    /\ tailInd = 0
    /\ headInd = 0
    /\ elemSize = 0
    /\ maxElems = 0
    /\ NbElems = 0
    /\ storage = <<>>
    /\ fill \in {0, 255}
    /\ produced = <<>>
    /\ consumed = <<>>
    /\ readLog = <<>>
    /\ last = [op |-> "none", ret |-> 0, lockFail |-> 0,
               head |-> 0, tail |-> 0, count |-> 0]
    /\ pc = [p \in Procs |-> "idle"]
    /\ chk = [p \in Procs |-> CB_false]
    /\ rv = [p \in Procs |-> NULL]
    /\ raced = {}

\* one caller, calls run to completion one after the other; either build
Init ==
    /\ CIRCULAR_USE_LOCK_MECHANISM \in BOOLEAN
    /\ tasks = {}
    /\ InitCommon

(***************************************************************************)
(* emCircularInit(maxElems, elemSize, sem_name); semOk tells whether       *)
(* emCircularPort_InitBynSem returns a semaphore.                          *)
(***************************************************************************)
emCircularInit(m, es, semOk) ==
    /\ created = "none"
    /\ initArgs' = <<m, es>>
    /\ IF ~ValidArgs(m, es)
       THEN /\ created' = "failed"
            /\ last' = Call("Init", NULL, 0)
            /\ UNCHANGED <<heap, sem, bufVars, storage>>
       ELSE /\ heap' = {"CBuffer_t", "buffer"}
            /\ headInd' = 0
            /\ tailInd' = 0
            /\ storage' = [a \in 0 .. (m * es - 1) |-> fill]
            /\ elemSize' = es
            /\ maxElems' = m
            /\ NbElems' = 0
            /\ IF CIRCULAR_USE_LOCK_MECHANISM /\ ~semOk
               THEN /\ sem' = "none"
                    /\ created' = "failed"
                    /\ last' = Call("Init", NULL, 0)
               ELSE /\ sem' = IF CIRCULAR_USE_LOCK_MECHANISM THEN "free"
                              ELSE "none"
                    /\ created' = "ok"
                    /\ last' = Call("Init", 0, 0)
    /\ UNCHANGED <<CIRCULAR_USE_LOCK_MECHANISM, fill, produced, consumed,
                   readLog, procVars>>

Create ==
    \E m \in 0 .. MaxCap, es \in 0 .. MaxElemSize, semOk \in BOOLEAN :
        emCircularInit(m, es, semOk)

(***************************************************************************)
(* The calls of the sequential caller.  Each runs to completion; with the  *)
(* lock enabled the semaphore is free before and after it.                 *)
(***************************************************************************)
Query(op, ret, lf) ==
    /\ last' = Call(op, ret, lf)
    /\ UNCHANGED <<CIRCULAR_USE_LOCK_MECHANISM, created, initArgs, heap, sem,
                   bufVars, storage, fill, produced, consumed, readLog,
                   procVars>>

emCircularIsEmpty ==
    /\ created = "ok"
    /\ \E r \in AcquireResults :
         Query("IsEmpty", IsEmptyStatus(r, headInd, tailInd),
               IF r # SEM_OK THEN 1 ELSE 0)

emCircularIsFull ==
    /\ created = "ok"
    /\ \E r \in AcquireResults :
         Query("IsFull", IsFullStatus(r, headInd, tailInd, maxElems),
               IF r # SEM_OK THEN 1 ELSE 0)

emCircularGetRemainingSpace ==
    /\ created = "ok"
    /\ \E r \in AcquireResults :
         Query("GetRemainingSpace",
               IF r # SEM_OK THEN 0 ELSE RemainingSpace(maxElems, NbElems),
               IF r # SEM_OK THEN 1 ELSE 0)

\* emCircularGetHead, then the caller writes its next element to the slot
emCircularGetHead ==
    /\ created = "ok"
    /\ Len(produced) < MaxOps
    /\ \E r1 \in AcquireResults, r2 \in AcquireResults :
         LET full == IsFullStatus(r1, headInd, tailInd, maxElems)
             n == IncSize(NbElems)
             retval == HeadRetval(SlotPtr(headInd, elemSize), n, maxElems)
         IN  IF full # CB_false
             THEN Query("GetHead", NULL, IF r1 # SEM_OK THEN 1 ELSE 0)
             ELSE IF r2 # SEM_OK
             THEN Query("GetHead", NULL, 2)
             ELSE /\ headInd' = NextInd(headInd, maxElems)
                  /\ NbElems' = n
                  /\ last' = Call("GetHead", retval, 0)
                  /\ IF retval # NULL
                     THEN /\ produced' = Append(produced, retval)
                          /\ storage' = WriteElem(storage, retval, elemSize,
                                                  Payload(Len(produced) + 1))
                     ELSE UNCHANGED <<produced, storage>>
                  /\ UNCHANGED <<CIRCULAR_USE_LOCK_MECHANISM, created,
                                 initArgs, heap, sem, tailInd, elemSize,
                                 maxElems, fill, consumed, readLog, procVars>>

\* emCircularGetTail, then the caller reads the element in the slot
emCircularGetTail ==
    /\ created = "ok"
    /\ \E r1 \in AcquireResults, r2 \in AcquireResults :
         LET empty == IsEmptyStatus(r1, headInd, tailInd)
             n == DecSize(NbElems)
             retval == TailRetval(SlotPtr(tailInd, elemSize), n)
         IN  IF empty # CB_false
             THEN Query("GetTail", NULL, IF r1 # SEM_OK THEN 1 ELSE 0)
             ELSE IF r2 # SEM_OK
             THEN Query("GetTail", NULL, 2)
             ELSE /\ tailInd' = NextInd(tailInd, maxElems)
                  /\ NbElems' = n
                  /\ last' = Call("GetTail", retval, 0)
                  /\ IF retval # NULL
                     THEN /\ consumed' = Append(consumed, retval)
                          /\ readLog' = Append(readLog,
                                          ReadElem(storage, retval, elemSize))
                     ELSE UNCHANGED <<consumed, readLog>>
                  /\ UNCHANGED <<CIRCULAR_USE_LOCK_MECHANISM, created,
                                 initArgs, heap, sem, headInd, elemSize,
                                 maxElems, storage, fill, produced, procVars>>

Next ==
    \/ Create
    \/ emCircularIsEmpty
    \/ emCircularIsFull
    \/ emCircularGetRemainingSpace
    \/ emCircularGetHead
    \/ emCircularGetTail

Spec == Init /\ [][Next]_vars

(***************************************************************************)
(* Concurrent tasks, lock enabled.  A call of emCircularGetHead or         *)
(* emCircularGetTail is two critical sections: the one of emCircularIsFull *)
(* or emCircularIsEmpty, then the one that advances the index.  Every      *)
(* critical section is three steps: osSemaphoreAcquire(sem, osWaitForever) *)
(* waits until the semaphore is free and takes it, the body runs, and      *)
(* osSemaphoreRelease frees it.  A slot is granted in the body of the      *)
(* second critical section, where retval is computed and the index moves.  *)
(***************************************************************************)
seqVars == <<CIRCULAR_USE_LOCK_MECHANISM, created, initArgs, heap, fill,
             storage, readLog, last, tasks>>

\* the count read as a signed number: below 0 after it wrapped
Signed(n) == IF n >= SIZE_MOD \div 2 THEN n - SIZE_MOD ELSE n

\* the task calls emCircularGetHead or emCircularGetTail; the guards bound
\* the run (they are always true with one producer and one consumer)
OpsCap == IF Cardinality(tasks) > 2 THEN MaxRaceOps ELSE MaxOps

TaskCall(p) ==
    /\ created = "ok"
    /\ p \in Producers \cup Consumers
    /\ pc[p] = "idle"
    /\ p \in Producers => /\ Len(produced) < OpsCap
                          /\ Signed(NbElems) < maxElems + MaxDrift
    /\ p \in Consumers => /\ Len(consumed) <= OpsCap
                          /\ Signed(NbElems) > - MaxDrift
    /\ pc' = [pc EXCEPT ![p] = "chkEnter"]
    /\ UNCHANGED <<seqVars, sem, bufVars, produced, consumed, chk, rv, raced>>

\* emCircularPort_EnterCritical(buffer->sem) of either critical section
EnterCritical(p) ==
    /\ pc[p] \in {"chkEnter", "advEnter", "qEnter"}
    /\ sem = "free"
    /\ sem' = "taken"
    /\ pc' = [pc EXCEPT ![p] = IF pc[p] = "chkEnter" THEN "chkBody"
                                ELSE IF pc[p] = "advEnter" THEN "advBody"
                                ELSE "qBody"]
    /\ UNCHANGED <<seqVars, bufVars, produced, consumed, chk, rv, raced>>

\* the body of emCircularIsFull (a producer) or emCircularIsEmpty (a consumer)
CheckBody(p) ==
    /\ pc[p] = "chkBody"
    /\ chk' = [chk EXCEPT ![p] =
                 IF p \in Producers
                 THEN IsFullStatus(SEM_OK, headInd, tailInd, maxElems)
                 ELSE IsEmptyStatus(SEM_OK, headInd, tailInd)]
    /\ pc' = [pc EXCEPT ![p] = "chkExit"]
    /\ UNCHANGED <<seqVars, sem, bufVars, produced, consumed, rv, raced>>

\* emCircularPort_ExitCritical of the check, and the switch on its status
\* (the status is a temporary: it is dead after the switch)
CheckExit(p) ==
    /\ pc[p] = "chkExit"
    /\ sem' = "free"
    /\ IF chk[p] = CB_false
       THEN /\ pc' = [pc EXCEPT ![p] = "advEnter"]
            /\ rv' = rv
       ELSE /\ pc' = [pc EXCEPT ![p] = "idle"]
            /\ rv' = [rv EXCEPT ![p] = NULL]
    /\ chk' = [chk EXCEPT ![p] = CB_false]
    /\ UNCHANGED <<seqVars, bufVars, produced, consumed, raced>>

\* the body of the second critical section of emCircularGetHead
HeadBody(p) ==
    /\ p \in Producers
    /\ pc[p] = "advBody"
    /\ LET n == IncSize(NbElems)
           retval == HeadRetval(SlotPtr(headInd, elemSize), n, maxElems)
       IN  /\ headInd' = NextInd(headInd, maxElems)
           /\ NbElems' = n
           /\ rv' = [rv EXCEPT ![p] = retval]
           /\ produced' = IF retval # NULL THEN Append(produced, retval)
                          ELSE produced
           /\ raced' = IF ((headInd + 1) % maxElems) = tailInd
                        THEN raced \cup {"producers"} ELSE raced
    /\ pc' = [pc EXCEPT ![p] = "advExit"]
    /\ UNCHANGED <<seqVars, sem, tailInd, elemSize, maxElems, consumed, chk>>

\* the body of the second critical section of emCircularGetTail
TailBody(p) ==
    /\ p \in Consumers
    /\ pc[p] = "advBody"
    /\ LET n == DecSize(NbElems)
           retval == TailRetval(SlotPtr(tailInd, elemSize), n)
       IN  /\ tailInd' = NextInd(tailInd, maxElems)
           /\ NbElems' = n
           /\ rv' = [rv EXCEPT ![p] = retval]
           /\ consumed' = IF retval # NULL THEN Append(consumed, retval)
                          ELSE consumed
           /\ raced' = IF headInd = tailInd
                        THEN raced \cup {"consumers"} ELSE raced
    /\ pc' = [pc EXCEPT ![p] = "advExit"]
    /\ UNCHANGED <<seqVars, sem, headInd, elemSize, maxElems, produced, chk>>

\* emCircularPort_ExitCritical of the second critical section; return retval
\* (the local is gone once the call has returned)
AdvanceExit(p) ==
    /\ pc[p] = "advExit"
    /\ sem' = "free"
    /\ pc' = [pc EXCEPT ![p] = "idle"]
    /\ rv' = [rv EXCEPT ![p] = NULL]
    /\ UNCHANGED <<seqVars, bufVars, produced, consumed, chk, raced>>

\* one producer task and one consumer task, lock enabled
InitSPSC ==
    /\ CIRCULAR_USE_LOCK_MECHANISM = TRUE
    /\ tasks = {"p1", "c1"}
    /\ InitCommon

NextSPSC ==
    \/ Create
    \/ \E p \in tasks : TaskCall(p)
    \/ \E p \in tasks : EnterCritical(p)
    \/ \E p \in tasks : CheckBody(p)
    \/ \E p \in tasks : CheckExit(p)
    \/ \E p \in tasks : HeadBody(p)
    \/ \E p \in tasks : TailBody(p)
    \/ \E p \in tasks : AdvanceExit(p)

SpecSPSC == InitSPSC /\ [][NextSPSC]_vars

(***************************************************************************)
(* Either use of one buffer: calls made one after the other by a single    *)
(* caller (no tasks), or one producer task and one consumer task.          *)
(***************************************************************************)
InitSeqOrSPSC == Init \/ InitSPSC

NextSeqOrSPSC ==
    \/ tasks = {} /\ Next
    \/ tasks # {} /\ NextSPSC

SpecSeqOrSPSC == InitSeqOrSPSC /\ [][NextSeqOrSPSC]_vars

(***************************************************************************)
(* The same with a scheduler that lets every task run: a task that can     *)
(* take a step (make its next call, run the next statement of its call,    *)
(* take the semaphore while it is free) without interruption eventually    *)
(* takes one.  Nothing is assumed about which of the tasks waiting for     *)
(* the semaphore gets it.                                                  *)
(***************************************************************************)
TaskStep(p) ==
    /\ p \in tasks
    /\ \/ TaskCall(p)
       \/ EnterCritical(p)
       \/ CheckBody(p)
       \/ CheckExit(p)
       \/ HeadBody(p)
       \/ TailBody(p)
       \/ AdvanceExit(p)

SpecFair ==
    /\ InitSeqOrSPSC
    /\ [][NextSeqOrSPSC]_vars
    /\ WF_vars(TaskStep("p1"))
    /\ WF_vars(TaskStep("c1"))

(***************************************************************************)
(* Two producer tasks, two consumer tasks and a task that calls            *)
(* emCircularGetRemainingSpace, lock enabled: the steps of the producers   *)
(* and consumers are those above.                                          *)
(***************************************************************************)
\* the task calls emCircularGetRemainingSpace
MonitorCall(p) ==
    /\ created = "ok"
    /\ p \in Monitors
    /\ pc[p] = "idle"
    /\ pc' = [pc EXCEPT ![p] = "qEnter"]
    /\ UNCHANGED <<seqVars, sem, bufVars, produced, consumed, chk, rv, raced>>

\* the critical section of emCircularGetRemainingSpace
MonitorBody(p) ==
    /\ pc[p] = "qBody"
    /\ rv' = [rv EXCEPT ![p] = RemainingSpace(maxElems, NbElems)]
    /\ pc' = [pc EXCEPT ![p] = "qExit"]
    /\ UNCHANGED <<seqVars, sem, bufVars, produced, consumed, chk, raced>>

\* emCircularPort_ExitCritical of emCircularGetRemainingSpace; return retval
MonitorExit(p) ==
    /\ pc[p] = "qExit"
    /\ sem' = "free"
    /\ pc' = [pc EXCEPT ![p] = "idle"]
    /\ rv' = [rv EXCEPT ![p] = NULL]
    /\ UNCHANGED <<seqVars, bufVars, produced, consumed, chk, raced>>

InitMPMC ==
    /\ CIRCULAR_USE_LOCK_MECHANISM = TRUE
    /\ tasks = {"p1", "p2", "c1", "c2", "m1"}
    /\ InitCommon
    /\ fill = 0

\* a successful emCircularInit, with the largest element size
CreateMPMC ==
    \E m \in 2 .. MaxCap : emCircularInit(m, MaxElemSize, TRUE)

NextMPMC ==
    \/ CreateMPMC
    \/ \E p \in tasks : TaskCall(p)
    \/ \E p \in tasks : EnterCritical(p)
    \/ \E p \in tasks : CheckBody(p)
    \/ \E p \in tasks : CheckExit(p)
    \/ \E p \in tasks : HeadBody(p)
    \/ \E p \in tasks : TailBody(p)
    \/ \E p \in tasks : AdvanceExit(p)
    \/ \E p \in tasks : MonitorCall(p)
    \/ \E p \in tasks : MonitorBody(p)
    \/ \E p \in tasks : MonitorExit(p)

SpecMPMC == InitMPMC /\ [][NextMPMC]_vars

(***************************************************************************)
(* The same tasks when osSemaphoreAcquire may return an error: every       *)
(* operation then calls emCircularPort_ExitCritical and returns its error  *)
(* value.  Once a release by a task that holds nothing has freed the       *)
(* semaphore, two second critical sections can overlap; the unsynchronised *)
(* updates of NbElems are then a data race, whose outcomes are drawn from  *)
(* the values either task can have stored.                                 *)
(***************************************************************************)
\* if (emCircularPort_EnterCritical(...) != 0) { ExitCritical; return error }
FailEnter(p) ==
    /\ pc[p] \in {"chkEnter", "advEnter", "qEnter"}
    /\ SEM_FAIL \in AcquireResults
    /\ sem' = "free"
    /\ pc' = [pc EXCEPT ![p] = "idle"]
    /\ rv' = [rv EXCEPT ![p] = NULL]
    /\ UNCHANGED <<seqVars, bufVars, produced, consumed, chk, raced>>

\* the values NbElems++ and NbElems-- can leave or observe when they overlap
RacyCounts(n) == {DecSize(n), n, IncSize(n)}

\* the second critical sections of a producer and a consumer, overlapped
RacyBodies(p, q) ==
    /\ p \in Producers /\ q \in Consumers
    /\ pc[p] = "advBody" /\ pc[q] = "advBody"
    /\ \E np \in RacyCounts(NbElems), nc \in RacyCounts(NbElems),
          nf \in RacyCounts(NbElems) :
         LET retP == HeadRetval(SlotPtr(headInd, elemSize), np, maxElems)
             retC == TailRetval(SlotPtr(tailInd, elemSize), nc)
         IN  /\ headInd' = NextInd(headInd, maxElems)
             /\ tailInd' = NextInd(tailInd, maxElems)
             /\ NbElems' = nf
             /\ rv' = [rv EXCEPT ![p] = retP, ![q] = retC]
             /\ produced' = IF retP # NULL THEN Append(produced, retP)
                            ELSE produced
             /\ consumed' = IF retC # NULL THEN Append(consumed, retC)
                            ELSE consumed
    /\ pc' = [pc EXCEPT ![p] = "advExit", ![q] = "advExit"]
    /\ UNCHANGED <<seqVars, sem, elemSize, maxElems, chk, raced>>

InitLockFail ==
    /\ CIRCULAR_USE_LOCK_MECHANISM = TRUE
    /\ tasks = {"p1", "c1", "m1"}
    /\ InitCommon
    /\ fill = 0

NextLockFail ==
    \/ CreateMPMC
    \/ \E p \in tasks : TaskCall(p)
    \/ \E p \in tasks : EnterCritical(p)
    \/ \E p \in tasks : FailEnter(p)
    \/ \E p \in tasks : CheckBody(p)
    \/ \E p \in tasks : CheckExit(p)
    \/ \E p \in tasks : HeadBody(p)
    \/ \E p \in tasks : TailBody(p)
    \/ \E p, q \in tasks : RacyBodies(p, q)
    \/ \E p \in tasks : AdvanceExit(p)
    \/ \E p \in tasks : MonitorCall(p)
    \/ \E p \in tasks : MonitorBody(p)
    \/ \E p \in tasks : MonitorExit(p)

SpecLockFail == InitLockFail /\ [][NextLockFail]_vars

(***************************************************************************)
(* Properties.                                                             *)
(***************************************************************************)
\* the state of the ring is what it was when the last call was made
Untouched ==
    /\ headInd = last.head
    /\ tailInd = last.tail
    /\ NbElems = last.count

\* the last call took every lock it asked for
LocksTaken == last.lockFail = 0

\* C1: FIFO order.  In any sequential run of emCircularGetHead and
\* emCircularGetTail calls, the K-th successful consumer acquisition returns
\* the slot the K-th successful producer acquisition returned, and the element
\* read from it is the element that was written to it, for every K.
C1_FifoOrder ==
    /\ Len(consumed) <= Len(produced)
    /\ Len(readLog) = Len(consumed)
    /\ \A k \in 1 .. Len(consumed) :
          /\ consumed[k] = produced[k]
          /\ readLog[k] = Payload(k)

\* C1 witness: a run that wrapped around the end of storage, with elements of
\* more than one byte: the consumer was granted its first slot a second time.
C1_Witness ==
    /\ elemSize > 1
    /\ \E k \in 2 .. Len(consumed) : consumed[k] = consumed[1]

\* C2: from a fresh buffer, with no consumer acquisition, producer
\* acquisitions succeed until capacity - 1 slots are granted, then the buffer
\* is full and the next one returns NULL and leaves head, tail and count
\* alone; and no producer acquisition succeeds when the buffer is full.
C2_FullAfterCapMinusOne ==
    created = "ok" =>
      /\ Len(produced) - Len(consumed) <= maxElems - 1
      /\ (consumed = <<>> /\ Len(produced) = maxElems - 1)
            => ((headInd + 1) % maxElems) = tailInd
      /\ (consumed = <<>> /\ last.op = "GetHead" /\ LocksTaken)
            => IF last.ret = NULL
               THEN Len(produced) = maxElems - 1 /\ Untouched
               ELSE last.ret = produced[Len(produced)]
      /\ (last.op = "GetHead" /\ last.ret # NULL)
            => ((last.head + 1) % maxElems) # last.tail

\* C2 witness: the capacity-th producer acquisition in a row was refused.
C2_Witness ==
    /\ maxElems > 2
    /\ consumed = <<>>
    /\ Len(produced) = maxElems - 1
    /\ last.op = "GetHead"
    /\ LocksTaken
    /\ last.ret = NULL

\* C3: emCircularGetTail on an empty buffer (head = tail) returns NULL and
\* leaves head, tail and count unchanged.
C3_EmptyTailRefused ==
    (last.op = "GetTail" /\ last.head = last.tail)
        => /\ last.ret = NULL
           /\ Untouched
           /\ Len(consumed) = Len(produced)

\* C3 witness: the buffer was used, is empty again away from index 0, and a
\* consumer acquisition that took its lock was refused.
C3_Witness ==
    /\ last.op = "GetTail"
    /\ LocksTaken
    /\ last.head = last.tail
    /\ last.head > 0
    /\ last.ret = NULL

\* the slots granted to the producer side and not yet to the consumer side
Outstanding ==
    {k \in 1 .. Len(produced) : k > Len(consumed)}

RECURSIVE GrantableFrom(_, _, _, _)
GrantableFrom(h, t, m, fuel) ==
    IF fuel = 0 \/ IsFullCond(h, t, m) THEN 0
    ELSE 1 + GrantableFrom(NextInd(h, m), t, m, fuel - 1)

\* C5 as claimed: what emCircularGetRemainingSpace returns is the number of
\* consecutive producer acquisitions that would succeed from that state.
C5_RemainingIsGrantable ==
    (last.op = "GetRemainingSpace" /\ LocksTaken)
        => last.ret = GrantableFrom(headInd, tailInd, maxElems, maxElems)

\* C6 as claimed: a freshly created buffer reports empty, not full, and
\* capacity - 1 remaining.
C6_FreshBuffer ==
    (created = "ok" /\ produced = <<>> /\ LocksTaken)
        => /\ last.op = "IsEmpty" => last.ret = CB_true
           /\ last.op = "IsFull" => last.ret = CB_false
           /\ last.op = "GetRemainingSpace" => last.ret = initArgs[1] - 1

C8_Predicates ==
    LocksTaken =>
      /\ last.op = "IsEmpty" =>
            /\ last.ret \in {CB_true, CB_false}
            /\ last.ret = CB_true <=> headInd = tailInd
      /\ last.op = "IsFull" =>
            /\ last.ret \in {CB_true, CB_false}
            /\ last.ret = CB_true <=> ((headInd + 1) % maxElems) = tailInd

\* C8 witness: emCircularIsFull answered CB_true on a ring that has wrapped
\* (head behind tail).
C8_Witness ==
    /\ last.op = "IsFull"
    /\ LocksTaken
    /\ last.ret = CB_true
    /\ headInd < tailInd

\* C9: lock enabled; when a lock acquisition inside a call fails, the call
\* reports failure and changes nothing: emCircularIsEmpty and emCircularIsFull
\* return CB_error, which is neither CB_true nor CB_false, the acquisitions
\* return NULL, and head, tail and count are as before the call; for the lock
\* of the check and for the lock of the advance.
C9_LockFailure ==
    (last.lockFail # 0) =>
      /\ CIRCULAR_USE_LOCK_MECHANISM
      /\ Untouched
      /\ last.op \in {"IsEmpty", "IsFull"} =>
            last.ret = CB_error /\ last.ret \notin {CB_true, CB_false}
      /\ last.op \in {"GetHead", "GetTail"} => last.ret = NULL
      /\ last.lockFail = 2 =>
            /\ last.op = "GetHead" => ((headInd + 1) % maxElems) # tailInd
            /\ last.op = "GetTail" => headInd # tailInd

\* C9 witness: a producer acquisition whose check passed on a part-filled
\* buffer and whose second lock acquisition failed.
C9_Witness ==
    /\ last.op = "GetHead"
    /\ last.lockFail = 2
    /\ Len(produced) > Len(consumed)
    /\ last.ret = NULL

\* C10: emCircularInit returns NULL whenever maxElems < 2 or elemSize < 1,
\* whatever the other arguments, and then has allocated no memory and
\* created no semaphore.
C10_InvalidArgs ==
    (created # "none" /\ (initArgs[1] < 2 \/ initArgs[2] < 1))
        => /\ created = "failed"
           /\ last.op = "Init"
           /\ last.ret = NULL
           /\ heap = {}
           /\ sem = "none"

\* C10 witness: emCircularInit called with capacity 1 and a valid element
\* size, in the build with the lock.
C10_Witness ==
    /\ created = "failed"
    /\ initArgs[1] = 1
    /\ initArgs[2] >= 1
    /\ CIRCULAR_USE_LOCK_MECHANISM

(***************************************************************************)
(* emCircularInit when the allocator may fail.  descOk and bufOk tell      *)
(* whether the malloc of the descriptor and of the storage return memory.  *)
(* The code tests neither result.  With the descriptor NULL the stores     *)
(* retval->headInd = 0 ... go through a null pointer, which is undefined:  *)
(* the program faults ("crashed"), or the stores are lost and the function *)
(* goes on and returns retval, which is NULL; goesOn picks the outcome.    *)
(* With only the storage NULL, startBuffer is NULL in a buffer that is     *)
(* returned as if it were good.                                            *)
(***************************************************************************)
emCircularInitAlloc(m, es, descOk, bufOk, semOk, goesOn) ==
    /\ created = "none"
    /\ initArgs' = <<m, es, descOk, bufOk, semOk>>
    /\ IF ~ValidArgs(m, es)
       THEN /\ created' = "failed"
            /\ last' = Call("Init", NULL, 0)
            /\ UNCHANGED <<heap, sem, bufVars, storage>>
       ELSE /\ heap' = (IF descOk THEN {"CBuffer_t"} ELSE {})
                          \cup (IF bufOk THEN {"buffer"} ELSE {})
            /\ storage' = IF bufOk THEN [a \in 0 .. (m * es - 1) |-> fill]
                          ELSE <<>>
            /\ IF ~descOk
               THEN /\ UNCHANGED <<bufVars, sem>>
                    /\ created' = IF goesOn THEN "failed" ELSE "crashed"
                    /\ last' = Call("Init", NULL, 0)
               ELSE /\ headInd' = 0
                    /\ tailInd' = 0
                    /\ elemSize' = es
                    /\ maxElems' = m
                    /\ NbElems' = 0
                    /\ IF CIRCULAR_USE_LOCK_MECHANISM /\ ~semOk
                       THEN /\ sem' = "none"
                            /\ created' = "failed"
                            /\ last' = Call("Init", NULL, 0)
                       ELSE /\ sem' = IF CIRCULAR_USE_LOCK_MECHANISM
                                      THEN "free" ELSE "none"
                            /\ created' = "ok"
                            /\ last' = Call("Init", 0, 0)
    /\ UNCHANGED <<CIRCULAR_USE_LOCK_MECHANISM, fill, produced, consumed,
                   readLog, procVars>>

CreateAlloc ==
    \E m \in 0 .. MaxCap, es \in 0 .. MaxElemSize,
       descOk \in BOOLEAN, bufOk \in BOOLEAN, semOk \in BOOLEAN,
       goesOn \in BOOLEAN :
        emCircularInitAlloc(m, es, descOk, bufOk, semOk, goesOn)

\* construction with a failing allocator, then the queries of the buffer
NextAlloc ==
    \/ CreateAlloc
    \/ emCircularIsEmpty
    \/ emCircularIsFull
    \/ emCircularGetRemainingSpace

SpecAlloc == Init /\ [][NextAlloc]_vars

\* emCircularInit was called with valid arguments and an allocation or the
\* creation of the semaphore failed
ConstructionFailed ==
    /\ created # "none"
    /\ Len(initArgs) = 5
    /\ ValidArgs(initArgs[1], initArgs[2])
    /\ \/ ~initArgs[3]
       \/ ~initArgs[4]
       \/ CIRCULAR_USE_LOCK_MECHANISM /\ ~initArgs[5]

\* C11 as claimed: every failed construction returns NULL and leaks nothing:
\* when the allocation of the descriptor or of the storage fails, or the
\* creation of the semaphore fails with the lock enabled, emCircularInit
\* returns NULL and every block it allocated has been released.
C11_FailedCreateLeaksNothing ==
    /\ ConstructionFailed => created = "failed" /\ last.ret = NULL
    /\ created \in {"failed", "crashed"} => heap = {}

(***************************************************************************)
(* C12: with the lock enabled, a task is inside a critical section only    *)
(* while the semaphore is taken, at most one task is inside a critical     *)
(* section at a time, and the semaphore is free whenever every task is     *)
(* between calls.                                                          *)
(***************************************************************************)
Inside(p) == pc[p] \in {"chkBody", "chkExit", "advBody", "advExit",
                        "qBody", "qExit"}

C12_LockDiscipline ==
    created = "ok" =>
      /\ \A p \in tasks : Inside(p) => sem = "taken"
      /\ Cardinality({p \in tasks : Inside(p)}) <= 1
      /\ (\A p \in tasks : pc[p] = "idle") => sem = "free"

(***************************************************************************)
(* C13: with two producers and two consumers the check and the advance of  *)
(* a call are separate critical sections, so an advance can happen when    *)
(* the indices no longer allow it.  The count always stays congruent to    *)
(* (head - tail) modulo the capacity; it equals (head - tail) mod capacity *)
(* as long as no advance overran, it can exceed it only after a producer   *)
(* advanced a full buffer and fall below it only after a consumer advanced *)
(* an empty one.  The witness is the state right after two producers       *)
(* raced from a consistent buffer: head = tail (reported empty) with       *)
(* count = capacity.  C13_WitnessMirrored is the mirrored race of two      *)
(* consumers: tail has passed head and the count has wrapped.              *)
(***************************************************************************)
Occupied == (headInd - tailInd) % maxElems

C13_RaceOutcome ==
    created = "ok" =>
      /\ (Signed(NbElems) - Occupied) % maxElems = 0
      /\ raced = {} => NbElems = Occupied
      /\ "producers" \notin raced => Signed(NbElems) <= Occupied
      /\ "consumers" \notin raced => Signed(NbElems) >= Occupied

C13_Witness ==
    /\ created = "ok"
    /\ raced = {"producers"}
    /\ \A p \in Producers : pc[p] = "idle"
    /\ Len(produced) = maxElems
    /\ IsEmptyCond(headInd, tailInd)
    /\ NbElems = maxElems
    /\ NbElems # Occupied

C13_WitnessMirrored ==
    /\ created = "ok"
    /\ raced = {"consumers"}
    /\ \A p \in Consumers : pc[p] = "idle"
    /\ Len(consumed) = Len(produced) + 1
    /\ IsFullCond(headInd, tailInd, maxElems)
    /\ NbElems = SIZE_MOD - 1
    /\ NbElems # Occupied

(***************************************************************************)
(* C14: with any number of producers and consumers, racing or not, head    *)
(* and tail stay in [0, capacity), and every slot pointer a producer or a  *)
(* consumer call returns (or has returned) is i * elemSize for an index i  *)
(* in [0, capacity): the slot lies wholly inside the storage of            *)
(* capacity * elemSize bytes.                                              *)
(***************************************************************************)
InStorage(ptr) ==
    /\ \E i \in 0 .. maxElems - 1 : ptr = i * elemSize
    /\ ptr + elemSize <= maxElems * elemSize
    /\ \A a \in ptr .. ptr + elemSize - 1 : a \in DOMAIN storage

C14_IndicesInRange ==
    created = "ok" =>
      /\ headInd \in 0 .. maxElems - 1
      /\ tailInd \in 0 .. maxElems - 1
      /\ \A p \in tasks \cap (Producers \cup Consumers) :
           rv[p] # NULL => InStorage(rv[p])
      /\ \A k \in 1 .. Len(produced) : InStorage(produced[k])
      /\ \A k \in 1 .. Len(consumed) : InStorage(consumed[k])

C14_Witness ==
    /\ created = "ok"
    /\ raced = {"producers", "consumers"}
    /\ \E p \in Producers, q \in Consumers :
         /\ pc[p] = "advExit" /\ pc[q] = "advEnter"
         /\ rv[p] = (maxElems - 1) * elemSize
    /\ headInd = 0
    /\ Len(produced) > maxElems
    /\ Len(consumed) > 0

C15_WitnessSequential ==
    /\ created = "ok"
    /\ tasks = {}
    /\ last.op = "GetHead" /\ last.ret # NULL
    /\ headInd < tailInd
    /\ NbElems = maxElems - 1
    /\ maxElems = MaxCap

(***************************************************************************)
(* C16: the guard of emCircularGetHead.  As claimed: a producer whose      *)
(* increment made the count exceed the capacity returns NULL, which can    *)
(* happen only after producers raced past emCircularIsFull.                *)
(* C16_AsClaimed is violated: after two consumers raced past               *)
(* emCircularIsEmpty the count wraps below 0, and one more consumer call   *)
(* followed by a producer call brings it to 2^w - 1 > capacity.            *)
(***************************************************************************)
GuardFires(p) == pc[p] = "advExit" /\ rv[p] = NULL

C16_GuardState ==
    created = "ok" =>
      /\ \A p \in Producers :
           pc[p] = "advExit" => (rv[p] = NULL <=> NbElems > maxElems)
      /\ NbElems > maxElems => raced # {}

C16_NoRollback ==
    \A p \in Producers :
      /\ (pc[p] = "advBody" /\ pc'[p] = "advExit") =>
            /\ headInd' = (headInd + 1) % maxElems
            /\ NbElems' = (NbElems + 1) % SIZE_MOD
            /\ rv'[p] # NULL => rv'[p] = headInd * elemSize
      /\ (pc[p] = "advExit" /\ pc'[p] = "idle") =>
            /\ headInd' = headInd
            /\ NbElems' = NbElems

C17_GuardState ==
    created = "ok" =>
      /\ \A c \in Consumers : pc[c] = "advExit" => rv[c] # NULL
      /\ \A m \in Monitors :
           (pc[m] = "qExit" /\ NbElems > maxElems) => rv[m] = 0

C17_WrapStep ==
    \A c \in Consumers :
      (pc[c] = "advBody" /\ pc'[c] = "advExit" /\ NbElems = 0) =>
         /\ NbElems' = SIZE_MOD - 1
         /\ rv'[c] = tailInd * elemSize
         /\ tailInd' = (tailInd + 1) % maxElems

C17_DeadGuard == [](C17_GuardState) /\ [][C17_WrapStep]_vars

C17_Witness ==
    /\ created = "ok"
    /\ raced = {"consumers"}
    /\ NbElems = SIZE_MOD - 1
    /\ Len(consumed) = Len(produced) + 1
    /\ pc["m1"] = "qExit"
    /\ rv["m1"] = 0

(***************************************************************************)
(* C18: in sequential use and with one producer task and one consumer      *)
(* task, the slot most recently granted to the consumer is not among the   *)
(* slots granted to the producer and not yet consumed, and no producer     *)
(* grant returns it: the slot the full rule leaves unused is the one the   *)
(* reader may still be reading.  The slot most recently granted to the     *)
(* producer has no such protection: C18_WitnessUnprotected is a state in   *)
(* which the consumer's very next grant is that slot.                      *)
(***************************************************************************)
LastConsumed == consumed[Len(consumed)]

C18_ReaderSlotFree ==
    (created = "ok" /\ Len(consumed) > 0) =>
      \A k \in Len(consumed) + 1 .. Len(produced) : produced[k] # LastConsumed

C18_GrantStep ==
    (Len(produced') > Len(produced) /\ Len(consumed) > 0) =>
       /\ consumed' = consumed
       /\ produced'[Len(produced')] # LastConsumed

C18_ReaderProtected == [](C18_ReaderSlotFree) /\ [][C18_GrantStep]_vars

C18_Witness ==
    /\ created = "ok"
    /\ tasks = {"p1", "c1"}
    /\ Len(consumed) > 0
    /\ Len(produced) > maxElems
    /\ IsFullCond(headInd, tailInd, maxElems)
    /\ SlotPtr(headInd, elemSize) = LastConsumed
    /\ pc["p1"] = "advExit"

C18_WitnessUnprotected ==
    /\ created = "ok"
    /\ tasks = {"p1", "c1"}
    /\ Len(produced) > maxElems
    /\ Len(consumed) = Len(produced)
    /\ pc["c1"] = "advExit"
    /\ rv["c1"] = produced[Len(produced)]

(***************************************************************************)
(* C19: a task whose osSemaphoreAcquire failed does not release the        *)
(* semaphore: the step in which its call gives up leaves the semaphore as  *)
(* it was, and in particular leaves it taken when another task is inside   *)
(* a critical section.                                                     *)
(***************************************************************************)
GivesUp(p) == pc[p] \in {"chkEnter", "advEnter", "qEnter"} /\ pc'[p] = "idle"

C19_NoStrayRelease ==
    [][\A p \in tasks :
         GivesUp(p) =>
           /\ sem' = sem
           /\ (\E q \in tasks \ {p} : Inside(q)) => sem' = "taken"]_vars

(***************************************************************************)
(* C20, as claimed: no constructed buffer is both full and empty, and      *)
(* with one producer task and one consumer task that keep polling under    *)
(* weak fairness every slot granted to the producer is eventually granted  *)
(* to the consumer.  The second part is violated: the consumer can wait    *)
(* for the semaphore for ever while the producer, polling a full buffer,   *)
(* takes it each time it is free.                                          *)
(***************************************************************************)
NotFullAndEmpty ==
    created = "ok" =>
      ~ /\ IsFullStatus(SEM_OK, headInd, tailInd, maxElems) = CB_true
        /\ IsEmptyStatus(SEM_OK, headInd, tailInd) = CB_true

EveryGrantConsumed ==
    \A k \in 1 .. MaxOps :
      (tasks # {} /\ Len(produced) >= k) ~> (Len(consumed) >= k)

=============================================================================
